---------------------------- MODULE Spec2Model ----------------------------
(***************************************************************************)
(* The select()-based chat relay of chat_server_select.c as a state        *)
(* machine.  One action per step of main's loop: the readiness wait, the   *)
(* control-input step, the accept step, the service of one client slot,    *)
(* one turn of broadcast_message's loop.  The environment (peers, the      *)
(* terminal, the kernel) is the nondeterminism of the system calls'        *)
(* results.                                                                *)
(***************************************************************************)
EXTENDS Integers, Sequences, FiniteSets, TLC

(***************************************************************************)
(* Bounds of the model.                                                    *)
(***************************************************************************)
\* Number of slots of client_socket.  The source sets 10
\* (chat_server_select.c:22); the model is checked at a smaller capacity.
MAX_CLIENTS == 3

\* How many descriptors beyond listener + MAX_CLIENTS the kernel still hands
\* out before accept fails with EMFILE (the descriptor limit of the process).
MaxSpareFds == 1

\* Longest message a peer sends in the model (bytes), apart from the one
\* that fills the whole receive buffer (FullMsg).
MaxLen == 2

(***************************************************************************)
(* Program constants.                                                      *)
(***************************************************************************)
BUF_SIZE == 256

STDIN_FILENO == 0

\* Descriptors 0, 1, 2 are open when main starts.
StdFds == {0, 1, 2}

\* The byte values of the model's messages.
Bytes == {"a", "b"}

\* The acknowledgement literal of main, and its length argument.
ACK == <<"A", "C", "K">>

\* The lines the terminal may deliver to fgets (at most 15 characters each).
QuitLine == <<"q", "u", "i", "t", "\n">>

Lines ==
    { QuitLine,
      <<"q", "u", "i", "t", "x", "\n">>,
      <<"Q", "u", "i", "t", "\n">>,
      <<"\n">> }

Slots == 0 .. (MAX_CLIENTS - 1)

\* Largest descriptor number the kernel hands out.
FdLimit == 3 + MAX_CLIENTS + MaxSpareFds

Fds == 0 .. FdLimit

\* The messages of up to MaxLen bytes that one
\* recv(fd, buffer_test, BUF_SIZE, 0) call can deliver.
Msgs ==
    { [k \in 1 .. n |-> b] :
        n \in 1 .. (IF MaxLen < BUF_SIZE THEN MaxLen ELSE BUF_SIZE), b \in Bytes }

\* The message that fills the whole buffer of a recv call.
FullMsg == [k \in 1 .. BUF_SIZE |-> "a"]

\* Descriptors per byte of an fd_set.
FdsPerByte == 8

VARIABLES
    proc,           \* "running", "exit(0)", "exit(1)" or "killed"
    sig,            \* the signal delivered to the process, "none" so far
    pc,             \* position of main's loop
    open,           \* descriptors open in the process (the kernel's table)
    listener_sfd,   \* global listener_sfd
    client_socket,  \* global client_socket[MAX_CLIENTS]
    max_fd,         \* main's max_fd
    readfds,        \* main's readfds, as the set of descriptors in it
    activity,       \* main's activity: what the last select returned
    i,              \* index of main's receive loop
    buffer_test,    \* what is stored from buffer_test[0] on, while the slot is serviced
    recv_bytes,     \* main's recv_bytes, while the slot is serviced
    sender_fd,      \* broadcast_message's parameters
    message,
    len,
    j,              \* index of broadcast_message's loop
    calls           \* system calls on handles made by the current dispatch step

vars ==
    << proc, sig, pc, open, listener_sfd, client_socket, max_fd, readfds,
       activity, i, buffer_test, recv_bytes, sender_fd, message, len, j, calls >>

(***************************************************************************)
(* Helpers.                                                                *)
(***************************************************************************)
\* The kernel allocates the lowest descriptor number that is not open;
\* -1 when the process is at its descriptor limit.
LowestFree(used) ==
    IF \E f \in Fds : f \notin used
    THEN CHOOSE f \in Fds : f \notin used /\ \A g \in Fds : g \notin used => f <= g
    ELSE -1

\* strncmp(cmd_buffer, "quit", 4) == 0
IsQuit(line) ==
    /\ Len(line) >= 4
    /\ SubSeq(line, 1, 4) = <<"q", "u", "i", "t">>

\* FreeSlot with the search running from the last slot downwards.
FreeSlot_HighestEmpty(cs) ==
    IF \E s \in Slots : cs[s] = 0
    THEN CHOOSE s \in Slots : cs[s] = 0 /\ \A t \in Slots : cs[t] = 0 => s >= t
    ELSE -1

\* FreeSlot with the search loop running one step too far when nothing is
\* free: the last slot is taken.
FreeSlot_LastWhenFull(cs) ==
    IF \E s \in Slots : cs[s] = 0
    THEN CHOOSE s \in Slots : cs[s] = 0 /\ \A t \in Slots : cs[t] = 0 => s <= t
    ELSE MAX_CLIENTS - 1

\* The slot the accept step's search loop stops at: the first slot whose
\* entry is 0, or -1 when the loop runs to its end without finding one.
FreeSlot(cs) ==
    IF \E s \in Slots : cs[s] = 0
    THEN CHOOSE s \in Slots : cs[s] = 0 /\ \A t \in Slots : cs[t] = 0 => s <= t
    ELSE -1

Max(a, b) == IF a > b THEN a ELSE b

\* Highest entry of client_socket (0 when all are empty).
MaxSlotFd(cs) == CHOOSE m \in {cs[s] : s \in Slots} : \A s \in Slots : cs[s] <= m

\* What send(fd, buf, n, 0) may return: -1, a short count, or n.
SendResults(n) == {-1, n} \cup (IF n > 1 THEN {n - 1} ELSE {})

Init ==
    /\ proc = "running"
    /\ sig = "none"
    /\ pc = "start"
    /\ open = StdFds
    /\ listener_sfd = -1
    /\ client_socket = [s \in Slots |-> 0]
    /\ max_fd = 0
    /\ readfds = {}
    /\ activity = 0
    /\ i = 0
    /\ buffer_test = <<>>
    /\ recv_bytes = 0
    /\ sender_fd = 0
    /\ message = <<>>
    /\ len = 0
    /\ j = 0
    /\ calls = <<>>


\* One entry of the log of system calls.
Call(c, fd, data, ret) == [call |-> c, fd |-> fd, data |-> data, ret |-> ret]

\* Monitored with the pass over client_socket starting at slot 1.
Monitored_SkipsSlotZero(cs) ==
    {STDIN_FILENO, listener_sfd}
        \cup {cs[s] : s \in {t \in Slots : t > 0 /\ cs[t] > 0}}

\* The handles the loop puts into readfds (FD_ZERO, FD_SET of stdin, of the
\* listener and of every slot whose entry is > 0).
Monitored(cs) ==
    {STDIN_FILENO, listener_sfd} \cup {cs[s] : s \in {t \in Slots : cs[t] > 0}}

\* max_fd after the top-of-loop pass over client_socket.
RaisedMaxFd(mf, cs) == Max(mf, MaxSlotFd(cs))

\* The ways setup_listener runs: getaddrinfo fails; no address yields a
\* bound socket (socket or bind fails for each one, a socket whose bind
\* failed being closed); setsockopt fails and the socket is closed; listen
\* fails and the socket is left open; or the socket is bound and listening.
SetupOutcomes == {"getaddrinfo", "nosocket", "setsockopt", "listen", "ok"}

\* The value setup_listener returns: the listening socket, or 0 on every
\* failure path.
SetupReturn(outcome, rv) == IF outcome = "ok" THEN rv ELSE 0

\* SetupFailed testing for -1, the failure value of the system calls.
SetupFailed_MinusOne(ret) == ret = -1

\* main's test of setup_listener's result.
SetupFailed(ret) == ret = 0

\* setup_listener and the test of its result in main.  The socket gets the
\* lowest free descriptor; when the result is taken for a failure main
\* exits with code 1, otherwise max_fd is set and the loop is entered.
SetupListener ==
    /\ proc = "running"
    /\ pc = "start"
    /\ \E outcome \in SetupOutcomes :
         LET rv  == LowestFree(open)
             ret == SetupReturn(outcome, rv)
         IN  /\ open' = IF outcome \in {"listen", "ok"} THEN open \cup {rv} ELSE open
             /\ calls' = << Call("setup_listener", rv, <<outcome>>, ret) >>
             /\ listener_sfd' = ret
             /\ IF SetupFailed(ret)
                THEN /\ proc' = "exit(1)"
                     /\ UNCHANGED << pc, max_fd, readfds >>
                ELSE /\ max_fd' = RaisedMaxFd(ret, client_socket)
                     /\ readfds' = {STDIN_FILENO, ret}
                     /\ pc' = "select"
                     /\ UNCHANGED proc
    /\ UNCHANGED << sig, client_socket, activity, i, buffer_test, recv_bytes, sender_fd,
                    message, len, j >>

\* The errors select may fail with.
SelectErrors == {"EINTR", "EBADF"}

\* Abandons with the errno test inverted.
Abandons_OnlyInterrupt(ret, err) == ret < 0 /\ err = "EINTR"

\* main's test after select: the iteration is abandoned (`continue`).
Abandons(ret, err) == ret < 0 /\ err # "EINTR"

\* The select() call, entered with readfds = Monitored(client_socket).
\* It returns the number of ready handles with readfds reduced to them, or
\* -1 with errno set, readfds left as it was.  Only a failure other than
\* EINTR takes the `continue`; after EINTR the dispatch steps run.
Select ==
    /\ proc = "running"
    /\ pc = "select"
    /\ max_fd' = RaisedMaxFd(max_fd, client_socket)
    /\ \/ \E ready \in (SUBSET readfds) \ {{}} :
            /\ readfds' = ready
            /\ activity' = Cardinality(ready)
            /\ calls' = << Call("select", max_fd' + 1, <<>>, activity') >>
            /\ pc' = "stdin"
       \/ \E err \in SelectErrors :
            /\ activity' = -1
            /\ calls' = << Call("select", max_fd' + 1, <<err>>, -1) >>
            /\ IF Abandons(activity', err)
               THEN /\ readfds' = Monitored(client_socket)
                    /\ pc' = "select"
               ELSE /\ readfds' = readfds
                    /\ pc' = "stdin"
    /\ UNCHANGED << proc, sig, open, listener_sfd, client_socket, i,
                    buffer_test, recv_bytes, sender_fd, message, len, j >>

\* What the control-input step prints for a line: the branch the strncmp
\* test selects.
ShutdownReply == << "Server received 'quit' command. Shutting down...\n" >>

IgnoredReply == << "Command ignored.\n" >>

CommandReply(line) == IF IsQuit(line) THEN ShutdownReply ELSE IgnoredReply

\* The control-input step: fgets of one line when stdin is in readfds, and
\* the strncmp against "quit".  Both branches of the comparison only print.
ControlStep ==
    /\ proc = "running"
    /\ pc = "stdin"
    /\ IF STDIN_FILENO \in readfds
       THEN \/ calls' = << Call("fgets", STDIN_FILENO, <<>>, 0) >>
            \/ \E line \in Lines :
                 calls' = << Call("fgets", STDIN_FILENO, line, 1),
                             Call("printf", 1, CommandReply(line), 0) >>
       ELSE calls' = <<>>
    /\ pc' = "accept"
    /\ UNCHANGED << proc, sig, open, listener_sfd, activity, client_socket, max_fd,
                    readfds, i, buffer_test, recv_bytes, sender_fd, message, len, j >>

\* The accept step.  A failed accept takes the `continue` to the top of the
\* loop.  A successful one searches client_socket for the first entry equal
\* to 0 and stores afd there; when no entry is 0 the loop ends without
\* storing, and nothing else is done with afd.
AcceptStep ==
    /\ proc = "running"
    /\ pc = "accept"
    /\ IF listener_sfd \in readfds
       THEN \/ /\ calls' = << Call("accept", listener_sfd, <<>>, -1) >>
               /\ readfds' = Monitored(client_socket)
               /\ max_fd' = RaisedMaxFd(max_fd, client_socket)
               /\ pc' = "select"
               /\ UNCHANGED << open, client_socket, i >>
            \/ LET afd == LowestFree(open)
                   slot == FreeSlot(client_socket)
               IN  /\ afd # -1
                   /\ open' = open \cup {afd}
                   /\ calls' = << Call("accept", listener_sfd, <<>>, afd) >>
                   /\ IF slot # -1
                      THEN /\ client_socket' = [client_socket EXCEPT ![slot] = afd]
                           /\ max_fd' = Max(max_fd, afd)
                      ELSE UNCHANGED << client_socket, max_fd >>
                   /\ pc' = "clients"
                   /\ i' = 0
                   /\ UNCHANGED readfds
       ELSE /\ calls' = <<>>
            /\ pc' = "clients"
            /\ i' = 0
            /\ UNCHANGED << open, client_socket, max_fd, readfds >>
    /\ UNCHANGED << proc, sig, listener_sfd, activity, buffer_test, recv_bytes, sender_fd, message,
                    len, j >>

\* What recv(avail_cfd, buffer_test, BUF_SIZE, 0) may return, with the bytes
\* it stored: an error, an orderly close by the peer, or a message.
RecvResults ==
    {[ret |-> -1, data |-> <<>>], [ret |-> 0, data |-> <<>>]}
        \cup {[ret |-> Len(m), data |-> m] : m \in Msgs \cup {FullMsg}}

\* The terminator byte '\0'.
NUL == "NUL"

\* buffer_test from its first byte on after the recv and the store of the
\* terminator: the n received bytes and the '\0' written at index n.
Stored(data, n) == [k \in 1 .. (n + 1) |-> IF k <= n THEN data[k] ELSE NUL]

\* The outcomes of the terminator store as the set of values of readfds after
\* it.  At an index below BUF_SIZE the store is inside buffer_test.  At index
\* BUF_SIZE it is one byte past the array: in builds that place nothing live
\* there (gcc -O0, -O2, -Os) it changes nothing the program reads again, in
\* builds that place readfds directly after buffer_test (gcc -O1) it clears
\* the first byte of readfds, the bits of descriptors 0 to 7.
TerminatorStore(n, rf) ==
    IF n < BUF_SIZE THEN {rf} ELSE {rf, {f \in rf : f >= FdsPerByte}}

\* Disconnected with `<` for `<=`: an orderly close is taken for a message.
Disconnected_ErrorOnly(ret) == ret < 0

\* recv_bytes <= 0: the peer is gone or the receive failed.
Disconnected(ret) == ret <= 0

\* AckPayload echoing the received bytes back to the sender.
AckPayload_Echo(received) == received

\* The buffer of main's acknowledgement send: the literal "ACK", whatever
\* was received.
AckPayload(received) == ACK

\* The first `ret` bytes of buf: what a send that returned ret wrote.
Written(buf, ret) == IF ret > 0 THEN SubSeq(buf, 1, ret) ELSE <<>>

\* IsRecipient without the test for an active socket.
IsRecipient_AnyEntry(cs, k, sender) == cs[k] # sender

\* IsRecipient without the test against the sender's handle.
IsRecipient_NoSenderTest(cs, k, sender) == cs[k] > 0

\* IsRecipient with the loop stopping one slot early.
IsRecipient_SkipsLastSlot(cs, k, sender) ==
    k < MAX_CLIENTS - 1 /\ cs[k] > 0 /\ cs[k] # sender

\* The two tests by which broadcast_message skips slot k: the entry is not
\* an active socket, or it is the sender's.
IsRecipient(cs, k, sender) == cs[k] > 0 /\ cs[k] # sender

\* Release leaving the slot's entry in place.
Release_KeepsEntry(cs, k) == cs

\* client_socket after slot k is released.
Release(cs, k) == [cs EXCEPT ![k] = 0]

\* One turn of main's receive loop, up to the recv call and the handling of
\* its result: the service of slot i.  After the last slot the iteration
\* ends and the loop rebuilds readfds and waits again.
ClientStep ==
    /\ proc = "running"
    /\ pc = "clients"
    /\ IF i = MAX_CLIENTS
       THEN /\ pc' = "select"
            /\ readfds' = Monitored(client_socket)
            /\ max_fd' = RaisedMaxFd(max_fd, client_socket)
            /\ calls' = <<>>
            /\ UNCHANGED << proc, sig, open, client_socket, i, buffer_test, recv_bytes,
                            sender_fd, message, len, j >>
       ELSE LET avail_cfd == client_socket[i] IN
            IF avail_cfd > 0 /\ avail_cfd \in readfds
            THEN \E r \in RecvResults :
                   /\ IF Disconnected(r.ret)
                      THEN /\ open' = open \ {avail_cfd}
                           /\ client_socket' = Release(client_socket, i)
                           /\ calls' = << Call("recv", avail_cfd, r.data, r.ret),
                                          Call("close", avail_cfd, <<>>, 0) >>
                           /\ i' = i + 1
                           /\ UNCHANGED << proc, sig, pc, buffer_test, recv_bytes,
                                           sender_fd, message, len, j >>
                           /\ UNCHANGED readfds
                      ELSE /\ buffer_test' = Stored(r.data, r.ret)
                           /\ recv_bytes' = r.ret
                           /\ readfds' \in TerminatorStore(r.ret, readfds)
                           /\ calls' = << Call("recv", avail_cfd, r.data, r.ret) >>
                           /\ pc' = "ack"
                           /\ UNCHANGED << proc, sig, open, client_socket, i,
                                           sender_fd, message, len, j >>
                   /\ UNCHANGED max_fd
            ELSE /\ i' = i + 1
                 /\ calls' = <<>>
                 /\ UNCHANGED << proc, sig, pc, open, client_socket, max_fd,
                                 readfds, buffer_test, recv_bytes, sender_fd, message, len, j >>
    /\ UNCHANGED << listener_sfd, activity >>

\* The acknowledgement send of main, whose result is not looked at, and the
\* call of broadcast_message with the sender's handle, the buffer and the
\* received length.
AckStep ==
    /\ proc = "running"
    /\ pc = "ack"
    /\ \E a \in SendResults(Len(AckPayload(buffer_test))) :
         calls' = Append(calls,
                     Call("ack", client_socket[i], Written(AckPayload(buffer_test), a), a))
    /\ sender_fd' = client_socket[i]
    /\ message' = buffer_test
    /\ len' = recv_bytes
    /\ j' = 0
    /\ pc' = "bcast"
    /\ UNCHANGED << proc, sig, open, listener_sfd, activity, client_socket, max_fd,
                    readfds, i, buffer_test, recv_bytes >>

\* The return of broadcast_message into main's loop: the block of
\* buffer_test ends and the receive loop moves to the next slot.
ReturnToLoop ==
    /\ pc' = "clients"
    /\ i' = i + 1
    /\ buffer_test' = <<>>
    /\ recv_bytes' = 0
    /\ sender_fd' = 0
    /\ message' = <<>>
    /\ len' = 0
    /\ j' = 0

\* What broadcast_message prints after a send that did not fail.
SendWarning == << "[SEND WARNING]" >>

SendSuccess == << "[SENT SUCCESS]" >>

\* SendReport without the comparison against the requested length.
SendReport_AlwaysSuccess(send_bytes, n) == SendSuccess

\* The test of the count returned by send against the requested length, and
\* the line printed for it.
SendReport(send_bytes, n) == IF send_bytes < n THEN SendWarning ELSE SendSuccess

\* One turn of broadcast_message's loop, at slot j.  A send that returns -1
\* closes the recipient, clears its slot and returns from the function; any
\* other result is reported and the loop moves on to the next slot.
BroadcastStep ==
    /\ proc = "running"
    /\ pc = "bcast"
    /\ IF j = MAX_CLIENTS
       THEN /\ ReturnToLoop
            /\ UNCHANGED << proc, sig, open, client_socket, calls >>
       ELSE LET sfd == client_socket[j] IN
            IF IsRecipient(client_socket, j, sender_fd)
            THEN \E send_bytes \in SendResults(len) :
                      IF send_bytes = -1
                      THEN /\ open' = open \ {sfd}
                           /\ client_socket' = Release(client_socket, j)
                           /\ calls' = calls \o
                                 << Call("send", sfd, <<>>, -1),
                                    Call("close", sfd, <<>>, 0) >>
                           /\ ReturnToLoop
                           /\ UNCHANGED << proc, sig >>
                      ELSE /\ calls' = calls \o
                                 << Call("send", sfd, Written(message, send_bytes),
                                         send_bytes),
                                    Call("printf", 1, SendReport(send_bytes, len), 0) >>
                           /\ j' = j + 1
                           /\ UNCHANGED << proc, sig, pc, open, client_socket, i,
                                           buffer_test, recv_bytes, sender_fd, message, len >>
            ELSE /\ j' = j + 1
                 /\ UNCHANGED << proc, sig, pc, open, client_socket, i, buffer_test, recv_bytes,
                                 sender_fd, message, len, calls >>
    /\ UNCHANGED << listener_sfd, activity, max_fd, readfds >>

\* SIGPIPE.  A send on a connection whose peer is gone raises SIGPIPE (no
\* send passes MSG_NOSIGNAL) and no disposition is set for it, so the
\* default action ends the process inside the acknowledgement send or inside
\* a send of broadcast_message.
Sigpipe ==
    /\ proc = "running"
    /\ \/ pc = "ack"
       \/ /\ pc = "bcast"
          /\ j < MAX_CLIENTS
          /\ IsRecipient(client_socket, j, sender_fd)
    /\ proc' = "killed"
    /\ sig' = "SIGPIPE"
    /\ UNCHANGED << pc, open, listener_sfd, activity, client_socket, max_fd, readfds,
                    i, buffer_test, recv_bytes, sender_fd, message, len, j, calls >>

\* SIGINT.  main never installs sigint_handler (there is no signal() or
\* sigaction() call in the server), so the default action applies: the
\* process is ended by the signal, wherever the loop stands, and none of its
\* code runs any more.
Sigint ==
    /\ proc = "running"
    /\ proc' = "killed"
    /\ sig' = "SIGINT"
    /\ UNCHANGED << pc, open, listener_sfd, activity, client_socket, max_fd, readfds,
                    i, buffer_test, recv_bytes, sender_fd, message, len, j, calls >>

RECURSIVE ClosesFrom(_, _)
\* The close calls of cleanup_and_exit's loop over client_socket, from slot
\* k on: one per entry > 0, in ascending slot order.
ClosesFrom(cs, k) ==
    IF k >= MAX_CLIENTS
    THEN <<>>
    ELSE (IF cs[k] > 0 THEN << Call("close", cs[k], <<>>, 0) >> ELSE <<>>)
            \o ClosesFrom(cs, k + 1)

\* cleanup_and_exit: close the listener, close and clear every active slot,
\* exit(0).  Its only caller is sigint_handler.
cleanup_and_exit ==
    /\ proc = "running"
    /\ calls' = (IF listener_sfd # -1
                 THEN << Call("close", listener_sfd, <<>>, 0) >>
                 ELSE <<>>) \o ClosesFrom(client_socket, 0)
    /\ open' = (open \ {listener_sfd})
                  \ {client_socket[s] : s \in {t \in Slots : client_socket[t] > 0}}
    /\ client_socket' =
          [s \in Slots |-> IF client_socket[s] > 0 THEN 0 ELSE client_socket[s]]
    /\ proc' = "exit(0)"
    /\ UNCHANGED << sig, pc, listener_sfd, activity, max_fd, readfds, i, buffer_test, recv_bytes,
                    sender_fd, message, len, j >>

\* sigint_handler: the handler written for SIGINT.  Nothing registers it, so
\* it is no step of the system (see Sigint).
sigint_handler == cleanup_and_exit

\* `running` is set to 1 once and never written again, so the `while` never
\* ends and the statements after it (close of the listener, clearing of the
\* slots, return 0) are never executed: the loop has no step that leaves it.
Next ==
    \/ SetupListener
    \/ Select
    \/ ControlStep
    \/ AcceptStep
    \/ ClientStep
    \/ AckStep
    \/ BroadcastStep
    \/ Sigpipe
    \/ Sigint

Spec == Init /\ [][Next]_vars

\* The steps of the server's own thread.
ServerStep ==
    \/ SetupListener
    \/ Select
    \/ ControlStep
    \/ AcceptStep
    \/ ClientStep
    \/ AckStep
    \/ BroadcastStep

\* The server that no signal is delivered to, its single thread always taking its next
\* step while the process lives (the environment eventually lets every
\* blocking call return).
FairSpec == Init /\ [][ServerStep]_vars /\ WF_vars(ServerStep)

(***************************************************************************)
(* Vocabulary of the properties.                                           *)
(***************************************************************************)
Occupied == {s \in Slots : client_socket[s] > 0}

Serving == proc = "running" /\ pc # "start"

\* Indices of the log entries of a given kind on a given handle.
Entries(kind, fd) ==
    {k \in DOMAIN calls : calls[k].call = kind /\ calls[k].fd = fd}

Sends == {k \in DOMAIN calls : calls[k].call = "send"}

\* The log is that of the service of a slot whose recv delivered a message.
ServedMessage == calls # <<>> /\ calls[1].call = "recv" /\ calls[1].ret > 0

\* The listener and every slot's handle are closed and the slots are empty.
TornDown ==
    /\ listener_sfd \notin open
    /\ \A s \in Slots : client_socket[s] = 0

(***************************************************************************)
(* C1  Partial failure isolation.  When a broadcast of a message from slot *)
(* S has ended and one of its sends failed, every occupied slot other than *)
(* S (also those above the failing one) was sent the message, and the only *)
(* handle closed is the failing recipient's.                               *)
(***************************************************************************)
C1_PartialFailureIsolation ==
    ( /\ proc = "running"
      /\ pc = "clients"
      /\ ServedMessage
      /\ \E k \in Sends : calls[k].ret = -1 )
    =>
    /\ \A s \in Occupied :
          client_socket[s] # calls[1].fd
             => \E k \in Entries("send", client_socket[s]) : calls[k].ret >= 0
    /\ \A k \in DOMAIN calls :
          calls[k].call = "close"
             => /\ k > 1
                /\ calls[k - 1] = Call("send", calls[k].fd, <<>>, -1)
    /\ Cardinality({k \in DOMAIN calls : calls[k].call = "close"}) = 1

(***************************************************************************)
(* C2  Shutdown by directive.  Once fgets has delivered the line `quit`,   *)
(* the server eventually has closed the listener and every client handle   *)
(* and the process has exited with code 0.                                 *)
(***************************************************************************)
QuitDelivered ==
    /\ proc = "running"
    /\ pc = "accept"
    /\ calls # <<>>
    /\ calls[1] = Call("fgets", STDIN_FILENO, QuitLine, 1)

C2_ShutdownByDirective == QuitDelivered ~> (proc = "exit(0)" /\ TornDown)

(***************************************************************************)
(* C3  Full-registry rejection.  A handle accepted while every slot is     *)
(* occupied is closed in the accept step itself, and whenever an iteration *)
(* has ended every client handle open in the process is held by exactly    *)
(* one slot.                                                               *)
(***************************************************************************)
C3_FullRegistryRejection ==
    /\ ( /\ proc = "running"
         /\ pc = "clients"
         /\ calls # <<>>
         /\ calls[1].call = "accept"
         /\ calls[1].ret >= 0
         /\ \A s \in Slots : client_socket[s] # calls[1].ret )
       => calls[1].ret \notin open
    /\ (proc = "running" /\ pc = "select")
       => \A f \in open \ (StdFds \cup {listener_sfd}) :
             Cardinality({s \in Slots : client_socket[s] = f}) = 1

C3_AcceptedWhileFull ==
    /\ pc = "clients"
    /\ calls # <<>>
    /\ calls[1].call = "accept"
    /\ calls[1].ret >= 0
    /\ \A s \in Slots : client_socket[s] # 0 /\ client_socket[s] # calls[1].ret

(***************************************************************************)
(* C4  Capacity invariant.  The number of occupied slots never exceeds     *)
(* MAX_CLIENTS, the accept step overwrites no occupied slot, and a handle  *)
(* accepted while every slot is occupied is stored in no slot.             *)
(***************************************************************************)
C4_CapacityInvariant ==
    /\ [](Cardinality({s \in Slots : client_socket[s] # 0}) <= MAX_CLIENTS)
    /\ [][ (proc = "running" /\ pc = "accept")
             => /\ \A s \in Slots :
                      client_socket[s] # 0 => client_socket'[s] = client_socket[s]
                /\ ( /\ \A s \in Slots : client_socket[s] # 0
                     /\ calls' # <<>>
                     /\ calls'[1].call = "accept"
                     /\ calls'[1].ret >= 0 )
                   => \A s \in Slots : client_socket'[s] # calls'[1].ret ]_vars

C4_Witness == C3_AcceptedWhileFull /\ proc = "running"

(***************************************************************************)
(* C5  Broadcast completeness.  When the broadcast of a received message   *)
(* of L > 0 bytes has run through all slots, at least two slots are        *)
(* occupied, and every send wrote all L bytes, then each occupied slot     *)
(* other than the sender's was sent exactly once, and exactly the bytes    *)
(* received.                                                               *)
(***************************************************************************)
AllSendsComplete == \A k \in Sends : calls[k].ret = calls[1].ret

BroadcastDone == pc = "bcast" /\ j = MAX_CLIENTS /\ ServedMessage

C5_BroadcastCompleteness ==
    (BroadcastDone /\ Cardinality(Occupied) >= 2 /\ AllSendsComplete)
    => \A s \in Occupied \ {i} :
          \E k \in Sends :
             /\ Entries("send", client_socket[s]) = {k}
             /\ calls[k].data = calls[1].data
             /\ calls[k].ret = Len(calls[1].data)

C5_Witness ==
    /\ BroadcastDone
    /\ AllSendsComplete
    /\ Cardinality(Occupied) = MAX_CLIENTS
    /\ Cardinality(Sends) = MAX_CLIENTS - 1
    /\ calls[1].ret > 1

(***************************************************************************)
(* C6  No self-echo.  While and after the message received from slot S is  *)
(* broadcast, no send of the broadcast is a send on the handle the message *)
(* was received from, which is the handle slot S holds.                    *)
(***************************************************************************)
C6_NoSelfEcho ==
    ServedMessage
    => /\ \A k \in Sends : calls[k].fd # calls[1].fd
       /\ pc \in {"ack", "bcast"} => client_socket[i] = calls[1].fd

C6_Witness ==
    /\ BroadcastDone
    /\ Sends # {}
    /\ client_socket[i] = calls[1].fd
    /\ i > 0

(***************************************************************************)
(* C7  End-to-end sender silence, as claimed: with A and B connected and a *)
(* message received from A, the server writes no byte to A's handle, and   *)
(* a completed broadcast has sent the message to B.                        *)
(***************************************************************************)
DeliveredToTheOther ==
    (BroadcastDone /\ Cardinality(Occupied) = 2 /\ AllSendsComplete)
    => \A s \in Occupied \ {i} :
          \E k \in Entries("send", client_socket[s]) : calls[k].data = calls[1].data

C7_SenderSilence ==
    ServedMessage
    => /\ \A k \in DOMAIN calls :
             (k > 1 /\ calls[k].fd = calls[1].fd) => calls[k].ret <= 0
       /\ DeliveredToTheOther

(***************************************************************************)
(* C7 amended.  With A and B connected and a message received from A, the  *)
(* only write to A's handle is the one acknowledgement send of the literal *)
(* "ACK" (all 3 bytes or, on a short write, a prefix of them), never a     *)
(* byte of the broadcast; a completed broadcast has sent the message to B. *)
(***************************************************************************)
C7_SenderGetsOnlyAck ==
    ServedMessage
    => /\ \A k \in DOMAIN calls :
             (k > 1 /\ calls[k].fd = calls[1].fd)
                => /\ k = 2
                   /\ calls[k].call = "ack"
                   /\ calls[k].ret <= Len(ACK)
                   /\ calls[k].data = Written(ACK, calls[k].ret)
       /\ DeliveredToTheOther

C7_Witness ==
    /\ BroadcastDone
    /\ Cardinality(Occupied) = 2
    /\ AllSendsComplete
    /\ Cardinality(Sends) = 1
    /\ calls[2] = Call("ack", calls[1].fd, ACK, Len(ACK))

(***************************************************************************)
(* C8  Disconnect cleanup.  A step of the receive loop whose recv on the   *)
(* occupied, ready slot i returns zero or a negative result closes that    *)
(* handle and nothing else, clears slot i and no other slot, makes no send *)
(* (no acknowledgement, no broadcast) and moves on to the next slot.       *)
(***************************************************************************)
C8_DisconnectCleanup ==
    [][ ( /\ proc = "running"
          /\ proc' = "running"
          /\ pc = "clients"
          /\ calls' # <<>>
          /\ calls'[1].call = "recv"
          /\ calls'[1].ret <= 0 )
        => /\ i < MAX_CLIENTS
           /\ client_socket[i] > 0
           /\ client_socket[i] \in readfds
           /\ calls' = << Call("recv", client_socket[i], <<>>, calls'[1].ret),
                          Call("close", client_socket[i], <<>>, 0) >>
           /\ client_socket' = [client_socket EXCEPT ![i] = 0]
           /\ open' = open \ {client_socket[i]}
           /\ pc' = "clients"
           /\ i' = i + 1 ]_vars

C8_Witness ==
    /\ proc = "running"
    /\ pc = "clients"
    /\ Len(calls) = 2
    /\ calls[1].call = "recv"
    /\ calls[1].ret = 0
    /\ calls[2] = Call("close", calls[1].fd, <<>>, 0)
    /\ client_socket[i - 1] = 0
    /\ Occupied # {}

(***************************************************************************)
(* C9  Orderly teardown.  Every step by which the process ends after it    *)
(* started serving closes the listener first and then every occupied       *)
(* slot's handle in ascending slot order, and leaves the slots empty and   *)
(* none of those handles open.                                             *)
(***************************************************************************)
C9_OrderlyTeardown ==
    [][ (Serving /\ proc' # "running")
        => /\ calls' = << Call("close", listener_sfd, <<>>, 0) >>
                          \o ClosesFrom(client_socket, 0)
           /\ TornDown'
           /\ \A s \in Occupied : client_socket[s] \notin open' ]_vars

(***************************************************************************)
(* C10  External termination request.  Once SIGINT has been delivered to  *)
(* the serving process, the process is never killed by it: it keeps        *)
(* running until the loop itself, standing between two dispatch steps, has *)
(* torn everything down and the process has exited with code 0.            *)
(***************************************************************************)
C10_InterruptTearsDown ==
    (sig = "SIGINT" /\ pc # "start")
    => /\ proc \in {"running", "exit(0)"}
       /\ proc = "exit(0)" => (TornDown /\ pc = "select")

(***************************************************************************)
(* C11  Control directive recognition.  A line read from the control input *)
(* is answered as the shutdown directive exactly when it is the line       *)
(* `quit`; every other line (`Quit`, `quitx`, the empty line) is answered  *)
(* as an ignored command.                                                  *)
(***************************************************************************)
ControlLineRead ==
    /\ pc = "accept"
    /\ calls # <<>>
    /\ calls[1].call = "fgets"
    /\ calls[1].ret = 1

C11_QuitTokenOnly ==
    ControlLineRead =>
        (calls[2].data = ShutdownReply <=> calls[1].data = QuitLine)

(***************************************************************************)
(* C12  Fatal startup.  When setup_listener has not produced a bound,      *)
(* listening socket the process has exited with code 1 without entering    *)
(* the loop: no slot is occupied and nothing was accepted.  The loop is    *)
(* entered only with the listening socket's handle in listener_sfd, open   *)
(* and distinct from the standard descriptors.                             *)
(***************************************************************************)
SetupDone == calls # <<>> /\ calls[1].call = "setup_listener"

C12_FatalStartup ==
    /\ (SetupDone /\ calls[1].data # <<"ok">>) => proc = "exit(1)"
    /\ proc = "exit(1)" => (pc = "start" /\ Occupied = {})
    /\ pc # "start" =>
         /\ listener_sfd \in open \ StdFds
         /\ SetupDone => (calls[1].data = <<"ok">> /\ listener_sfd = calls[1].fd)

C12_Witness ==
    /\ proc = "exit(1)"
    /\ SetupDone
    /\ calls[1].data = <<"listen">>
    /\ listener_sfd = 0

(***************************************************************************)
(* C13  Interrupted wait is a no-op retry.  In an iteration whose select   *)
(* returned -1 with EINTR the server makes no read of the control input,   *)
(* no accept and no receive.                                               *)
(***************************************************************************)
DispatchCalls == {"fgets", "accept", "recv", "ack", "send", "close"}

C13_InterruptIsNoOp ==
    (Serving /\ activity < 0) =>
        \A k \in DOMAIN calls : calls[k].call \notin DispatchCalls

(***************************************************************************)
(* C14  Wait error is non-fatal.  When select fails with an error other    *)
(* than EINTR the step makes no other call, leaves the registry, the       *)
(* listener and the open handles as they were, and the loop stands at the  *)
(* wait of a new iteration with the process still running.                 *)
(***************************************************************************)
WaitFailed ==
    /\ calls # <<>>
    /\ calls[1].call = "select"
    /\ calls[1].ret < 0
    /\ calls[1].data # <<"EINTR">>

C14_WaitErrorNonFatal ==
    [][ (proc = "running" /\ pc = "select" /\ sig' = sig /\ WaitFailed')
          => /\ proc' = "running"
             /\ pc' = "select"
             /\ Len(calls') = 1
             /\ client_socket' = client_socket
             /\ listener_sfd' = listener_sfd
             /\ open' = open
             /\ readfds' = Monitored(client_socket) ]_vars

C14_Witness ==
    /\ proc = "running"
    /\ pc = "select"
    /\ WaitFailed
    /\ Occupied # {}

(***************************************************************************)
(* C15  Ready clients are always serviced.  An iteration whose select      *)
(* returned normally with the handle of an occupied slot reported ready    *)
(* does not end before the receive loop has passed over every slot,        *)
(* whatever the control-input and accept steps did.                        *)
(***************************************************************************)
ReadySlots == {s \in Slots : client_socket[s] > 0 /\ client_socket[s] \in readfds}

C15_ReadyClientsServiced ==
    [][ ( /\ proc = "running" /\ proc' = "running"
          /\ activity >= 0
          /\ pc \in {"stdin", "accept", "clients", "ack", "bcast"}
          /\ pc' = "select"
          /\ ReadySlots # {} )
          => (pc = "clients" /\ i = MAX_CLIENTS) ]_vars

(***************************************************************************)
(* C16  Receive buffer bound.  While a received message is serviced its    *)
(* length L satisfies 1 <= L <= BUF_SIZE, everything stored for it         *)
(* (payload and terminator) lies inside the BUF_SIZE bytes of buffer_test, *)
(* and broadcast_message is given exactly the L received bytes.            *)
(***************************************************************************)
C16_ReceiveWithinBuffer ==
    (pc \in {"ack", "bcast"}) =>
        /\ recv_bytes \in 1 .. BUF_SIZE
        /\ Len(buffer_test) <= BUF_SIZE
        /\ pc = "bcast" =>
             (len = recv_bytes /\ SubSeq(message, 1, len) = calls[1].data)

(***************************************************************************)
(* C17  Released handles are never used again.  Every recv, send and close *)
(* the server makes on a client handle is made on a handle that is open    *)
(* and held by a slot when the step begins, and a handle is closed at most *)
(* once in a step: nothing is done with a handle after its release.  No    *)
(* slot holds a closed handle, and while a peer's message is serviced that *)
(* peer's slot is not released.                                            *)
(***************************************************************************)
ClientCalls == {"recv", "ack", "send", "close"}

\* The entries of calls' that the step added.
NewCalls ==
    IF Len(calls') >= Len(calls) /\ SubSeq(calls', 1, Len(calls)) = calls
    THEN (Len(calls) + 1) .. Len(calls')
    ELSE DOMAIN calls'

C17_NoUseAfterRelease ==
    [][ /\ \A k \in NewCalls :
             calls'[k].call \in ClientCalls =>
                /\ calls'[k].fd \in open
                /\ \E s \in Slots : client_socket[s] = calls'[k].fd
        /\ \A k, m \in NewCalls :
             (calls'[k].call = "close" /\ calls'[m].call = "close"
                 /\ calls'[k].fd = calls'[m].fd) => k = m
        /\ \A s \in Slots : client_socket'[s] > 0 => client_socket'[s] \in open'
        /\ (pc \in {"ack", "bcast"} /\ proc' = "running") =>
             (client_socket'[i] = client_socket[i] /\ client_socket[i] > 0) ]_vars

\* A message has been relayed while a handle number below that of a
\* connected peer is closed: the handle of a peer released earlier.
C17_Witness ==
    /\ BroadcastDone
    /\ \E k \in Sends : calls[k].ret > 0
    /\ \E f \in Fds :
         /\ f > listener_sfd
         /\ f \notin open
         /\ \E s \in Slots : client_socket[s] > f

(***************************************************************************)
(* C18  Handle uniqueness.  No two occupied slots hold the same handle, no *)
(* occupied slot holds the listener's handle or the control input's, and   *)
(* every slot is empty when the loop is entered.                           *)
(***************************************************************************)
C18_HandleUniqueness ==
    /\ \A s, t \in Occupied : client_socket[s] = client_socket[t] => s = t
    /\ \A s \in Occupied : client_socket[s] \notin {listener_sfd, STDIN_FILENO}
    /\ (SetupDone \/ pc = "start") => Occupied = {}

\* The accept step has just stored a handle whose number is below that of
\* another occupied slot: a number that was released and handed out again.
C18_Witness ==
    /\ proc = "running"
    /\ calls # <<>> /\ calls[1].call = "accept"
    /\ \E s, t \in Occupied :
         /\ client_socket[s] = calls[1].ret
         /\ client_socket[t] > client_socket[s]

(***************************************************************************)
(* C19  Lowest-slot assignment.  A successful accept made while some slot  *)
(* is empty stores the new handle in the empty slot of lowest index and    *)
(* changes no other slot.                                                  *)
(***************************************************************************)
C19_LowestSlotAssignment ==
    [][ ( /\ proc = "running" /\ pc = "accept" /\ pc' = "clients"
          /\ calls' # <<>> /\ calls'[1].call = "accept" /\ calls'[1].ret > 0
          /\ \E s \in Slots : client_socket[s] = 0 )
          => \E low \in Slots :
                /\ client_socket[low] = 0
                /\ \A t \in Slots : client_socket[t] = 0 => low <= t
                /\ client_socket' = [client_socket EXCEPT ![low] = calls'[1].ret] ]_vars

\* The accept step has just stored the new handle below an occupied slot,
\* with another slot still empty.
C19_Witness ==
    /\ pc = "clients" /\ i = 0
    /\ calls # <<>> /\ calls[1].call = "accept" /\ calls[1].ret > 0
    /\ \E s \in Slots :
         /\ client_socket[s] = calls[1].ret
         /\ \E t \in Slots : t > s /\ client_socket[t] > 0
         /\ \E u \in Slots : u > s /\ client_socket[u] = 0

(***************************************************************************)
(* C20  One accept per iteration.  accept is called at most once in an     *)
(* iteration, as the only call of the accept step, and only when the       *)
(* iteration's select returned normally with the listener reported ready.  *)
(***************************************************************************)
C20_OneAcceptWhenReported ==
    \A k \in DOMAIN calls :
        calls[k].call = "accept" => (activity > 0 /\ k = 1 /\ Len(calls) = 1)

(***************************************************************************)
(* C21  Short write handling.  When a send of broadcast_message returns a  *)
(* count that is not negative and below the message's length, the step     *)
(* prints the warning, makes no further send, leaves the recipient's slot  *)
(* occupied and its handle open, and the broadcast goes on with the next   *)
(* slot.                                                                   *)
(***************************************************************************)
C21_ShortWriteHandling ==
    [][ ( /\ proc = "running" /\ pc = "bcast" /\ j < MAX_CLIENTS
          /\ Len(calls') > Len(calls)
          /\ calls'[Len(calls) + 1].call = "send"
          /\ calls'[Len(calls) + 1].ret >= 0
          /\ calls'[Len(calls) + 1].ret < len )
          => /\ Len(calls') = Len(calls) + 2
             /\ calls'[Len(calls) + 2] = Call("printf", 1, SendWarning, 0)
             /\ client_socket' = client_socket
             /\ client_socket[j] = calls'[Len(calls) + 1].fd
             /\ open' = open
             /\ proc' = "running"
             /\ pc' = "bcast"
             /\ j' = j + 1
             /\ UNCHANGED << sender_fd, message, len >> ]_vars

\* A broadcast has ended in which a recipient got a short write and a
\* recipient at a higher slot was then sent the whole message.
C21_Witness ==
    /\ BroadcastDone
    /\ \E k, m \in Sends :
         /\ k < m
         /\ calls[k].ret >= 0 /\ calls[k].ret < calls[1].ret
         /\ calls[m].ret = calls[1].ret
         /\ calls[k + 1] = Call("printf", 1, SendWarning, 0)
         /\ \E s \in Occupied : client_socket[s] = calls[k].fd

(***************************************************************************)
(* C22  Dispatch order.  In an iteration the control-input step comes      *)
(* first, then the accept step, then the receive loop from slot 0 upwards, *)
(* each system call being made in its own step: fgets in the control-input *)
(* step, accept in the accept step, recv on the handle of the slot the     *)
(* receive loop stands at.  A handle that accept returns is held by a slot *)
(* when the receive loop begins, so that every broadcast of the iteration  *)
(* finds it in the registry, and it is not in readfds, so that the         *)
(* iteration does not read from it.                                        *)
(***************************************************************************)
C22_DispatchOrder ==
    [][ (proc = "running" /\ proc' = "running") =>
          /\ pc = "stdin" => pc' = "accept"
          /\ pc = "accept" => (pc' \in {"clients", "select"} /\ (pc' = "clients" => i' = 0))
          /\ (pc = "clients" /\ pc' = "clients") => i' = i + 1
          /\ pc \in {"clients", "ack", "bcast"} => i' >= i
          /\ \A k \in NewCalls :
                /\ calls'[k].call = "fgets" => pc = "stdin"
                /\ calls'[k].call = "accept" => pc = "accept"
                /\ calls'[k].call = "recv" =>
                      (pc = "clients" /\ calls'[k].fd = client_socket[i])
          /\ ( /\ pc = "accept"
               /\ calls' # <<>> /\ calls'[1].call = "accept" /\ calls'[1].ret > 0 )
             => /\ \E s \in Slots : client_socket'[s] = calls'[1].ret
                /\ calls'[1].ret \notin readfds' ]_vars

(***************************************************************************)
(* C23  Broadcast recipients.  Every send of a broadcast is made in a turn *)
(* of broadcast_message's loop, on the handle held at that moment by the   *)
(* slot the loop stands at: an occupied slot other than the sender's,      *)
(* whose handle is not the listener's nor the control input's and was not  *)
(* sent to before in this broadcast.  The loop index only moves upwards,   *)
(* one slot per turn, so recipients are visited in ascending slot order.   *)
(***************************************************************************)
C23_BroadcastRecipients ==
    [][ /\ \A k \in NewCalls :
             calls'[k].call = "send" =>
                /\ proc = "running" /\ pc = "bcast" /\ j < MAX_CLIENTS
                /\ calls'[k].fd = client_socket[j]
                /\ client_socket[j] > 0
                /\ j # i
                /\ calls'[k].fd \notin {client_socket[i], listener_sfd, STDIN_FILENO}
                /\ Entries("send", calls'[k].fd) = {}
                /\ \A m \in NewCalls : calls'[m].call = "send" => m = k
        /\ (proc = "running" /\ pc = "bcast" /\ proc' = "running" /\ pc' = "bcast")
             => j' = j + 1 ]_vars

\* A broadcast has ended that passed over an empty slot and sent to a
\* recipient in a slot above it.
C23_Witness ==
    /\ BroadcastDone
    /\ \E k \in Sends :
         \E s, t \in Slots :
            /\ s < t
            /\ client_socket[s] = 0
            /\ client_socket[t] = calls[k].fd
            /\ calls[k].ret > 0

(***************************************************************************)
(* C24  Readiness set construction.  Whenever the loop stands at select,   *)
(* readfds holds exactly the control input, the listener and the handles   *)
(* of the occupied slots, all of them open; the first argument of every    *)
(* select call is max_fd + 1 and exceeds every handle in the set; and no   *)
(* step lowers max_fd.                                                     *)
(***************************************************************************)
C24_ReadinessSet ==
    [][ /\ (proc = "running" /\ pc = "select") =>
             /\ readfds = {STDIN_FILENO, listener_sfd}
                             \cup {client_socket[s] : s \in Occupied}
             /\ readfds \subseteq open
        /\ \A k \in NewCalls :
             calls'[k].call = "select" =>
                /\ pc = "select"
                /\ calls'[k].fd = max_fd' + 1
                /\ \A f \in readfds : f < calls'[k].fd
        /\ max_fd' >= max_fd ]_vars

\* The loop stands at select with a peer connected, max_fd above every
\* handle waited on (the highest handle was released) and a handle open
\* that was never registered and is not waited on.
C24_Witness ==
    /\ proc = "running"
    /\ pc = "select"
    /\ Occupied # {}
    /\ \A f \in readfds : f < max_fd
    /\ \E f \in open : f \notin readfds \cup StdFds

=============================================================================
